---- MODULE Spec2Model ----
(***************************************************************************)
(* Model of the coordinate cleaning stage of cas_bot_georeference           *)
(* (clean_coords.py, CleanCoords) together with the declared-county        *)
(* normalisation of bels_reformat.py.                                      *)
(*                                                                         *)
(* A data frame is a sequence of rows; a row is a record of its columns.   *)
(* A text cell is [na, s]: na is pandas' NaN, s the string as a sequence   *)
(* of characters.  A coordinate cell is [k, n]: k = "nan" (missing),       *)
(* "text" (a non-numeric string) or "num" (the number n).                  *)
(***************************************************************************)
EXTENDS Integers, Sequences, FiniteSets, TLC

\* ------------------------------------------------------------- bounds
\* Largest batch (rows of processed_csv) with several rows.
MaxRecords == 2
\* Most rows in the validator's output table (temp_output.csv).
MaxCleaned == 2
\* Number of runs loading the gazetteer against one sqlite file.
MaxLoaders == 3

\* ------------------------------------------------------------- text cells
NaN == [na |-> TRUE, s |-> <<>>]
Str(s) == [na |-> FALSE, s |-> s]

UpperCase == <<"A","B","C","D","E","F","G","H","I","J","K","L","M",
               "N","O","P","Q","R","S","T","U","V","W","X","Y","Z">>
LowerCase == <<"a","b","c","d","e","f","g","h","i","j","k","l","m",
               "n","o","p","q","r","s","t","u","v","w","x","y","z">>

\* str.lower() on one character.
LowerChar(c) ==
    IF \E i \in DOMAIN UpperCase : UpperCase[i] = c
    THEN LowerCase[CHOOSE i \in DOMAIN UpperCase : UpperCase[i] = c]
    ELSE c

\* Python str.lower().
PyLower(s) == [i \in 1..Len(s) |-> LowerChar(s[i])]

\* Python str.strip(): leading and trailing blanks removed.
PyStrip(s) ==
    LET idx == {i \in 1..Len(s) : s[i] # " "}
    IN  IF idx = {} THEN <<>>
        ELSE LET lo == CHOOSE i \in idx : \A j \in idx : i <= j
                 hi == CHOOSE i \in idx : \A j \in idx : j <= i
             IN  SubSeq(s, lo, hi)

\* Series.str.strip(): NaN stays NaN.
str_strip(c) == IF c.na THEN NaN ELSE Str(PyStrip(c.s))

\* Series.str.lower(): NaN stays NaN.
str_lower(c) == IF c.na THEN NaN ELSE Str(PyLower(c.s))

\* Series + " suffix": NaN + str is NaN.
StrAdd(c, suffix) == IF c.na THEN NaN ELSE Str(c.s \o suffix)

\* SeriesNe with two missing values taken as equal.
SeriesNe_NaNEqual(a, b) == IF a.na /\ b.na THEN FALSE ELSE a.na \/ b.na \/ a.s # b.s

\* Series != Series on text: any comparison with NaN is unequal.
SeriesNe(a, b) == a.na \/ b.na \/ a.s # b.s

\* Series == scalar string: NaN equals nothing.
SeriesEqStr(a, s) == ~a.na /\ a.s = s

\* Series.astype(str): NaN becomes the text "nan".
astype_str(c) == IF c.na THEN Str(<<"n","a","n">>) ELSE c

\* ------------------------------------------------------------- literals
CountySuffix == <<" ","C","o","u","n","t","y">>
InOcean == <<"i","n"," ","o","c","e","a","n">>
OutOfBounds == <<"C","o","o","r","d","i","n","a","t","e"," ",
                 "v","a","l","u","e","s"," ","o","u","t"," ","o","f"," ",
                 "b","o","u","n","d","s">>
PossibleCentroid == <<"P","o","s","s","i","b","l","e"," ",
                      "c","e","n","t","r","o","i","d">>

\* ------------------------------------------------------------- coordinate cells
NumNaN == [k |-> "nan", n |-> 0]
NumText == [k |-> "text", n |-> 0]
Num(n) == [k |-> "num", n |-> n]

\* Series.isna()
isna(c) == c.k = "nan"

\* between() with the bounds excluded.
CoerceBetween_Exclusive(c, lo, hi) == c.k = "num" /\ lo < c.n /\ c.n < hi

\* pd.to_numeric(errors='coerce').between(lo, hi): a value that does not
\* coerce becomes NaN, and NaN is between nothing.
CoerceBetween(c, lo, hi) == c.k = "num" /\ lo <= c.n /\ c.n <= hi

\* ------------------------------------------------------------- state
VARIABLES
    pc,               \* position of the run in CleanCoords.__init__
    bels_csv,         \* the batch as originally reported (never changed)
    bels_reformatted, \* rename_drop_columns has been applied to the batch
    final_csv,        \* self.final_csv
    columns,          \* the column names of self.final_csv
    signals,          \* the boolean Series of initial_filter_results, per row
    to_check,         \* the frame to_check of clean_coordinates_with_r
    temp_input,       \* r_coord_clean/temp_input.csv
    returncode,       \* how the Rscript process ended
    cleaned,          \* r_coord_clean/temp_output.csv as read back
    output_csv,       \* the three files under geo_csvs/output_csv
    sqlite,           \* table geo_gazetteer of geolocate_cache.sqlite
    loader            \* per run: position in create_new_sqlite_gazetteer

vars == <<pc, bels_csv, bels_reformatted, final_csv, columns, signals,
          to_check, temp_input, returncode, cleaned, output_csv, sqlite, loader>>

pipeline_vars == <<pc, bels_csv, bels_reformatted, final_csv, columns,
                   signals, to_check, temp_input, returncode, cleaned,
                   output_csv>>

\* ------------------------------------------------------------- input rows
Yolo == <<"Y","o","l","o">>

\* A record every rule accepts when the frame is passed to CleanCoords as is.
BaseRecord ==
    [id |-> 0,
     latitude |-> Num(38), longitude |-> Num(-121),
     latlong_err |-> NaN,
     gvs_county |-> Str(Yolo), county |-> Str(Yolo \o CountySuffix),
     gvs_country |-> Str(<<"U","S">>), country |-> Str(<<" ","u","s">>),
     gvs_state |-> Str(<<"C","A">>), stateprovince |-> Str(<<"c","a"," ">>),
     locality |-> Str(<<"D","a","v","i","s">>),
     com_georef |-> FALSE, cc_valid |-> "NA"]

LatitudeAlt == {NumNaN, NumText, Num(91), Num(-90)}
LongitudeAlt == {NumNaN, NumText, Num(-181), Num(180)}
LatlongErrAlt == {Str(<<>>), Str(InOcean), Str(OutOfBounds),
                  Str(PossibleCentroid), Str(PyLower(OutOfBounds))}
GvsCountyAlt == {NaN, Str(Yolo \o CountySuffix), Str(<<" ","y","o","l","o">>),
                 Str(Yolo \o <<" ">>), Str(<<"N","a","p","a">>)}
CountyAlt == {NaN, Str(Yolo), Str(Yolo \o <<" ">>),
              Str(<<" ">> \o PyLower(Yolo \o CountySuffix) \o <<" ">>)}
GvsCountryAlt == {NaN, Str(<<"M","X">>)}
CountryAlt == {NaN}
GvsStateAlt == {NaN, Str(<<"N","V">>)}
StateprovinceAlt == {NaN}
LocalityAlt == {NaN, Str(<<>>), Str(<<" ">>)}

\* r with one column replaced by another value of that column.
OneOff(r) ==
    {[r EXCEPT !.latitude = v] : v \in LatitudeAlt}
    \cup {[r EXCEPT !.longitude = v] : v \in LongitudeAlt}
    \cup {[r EXCEPT !.latlong_err = v] : v \in LatlongErrAlt}
    \cup {[r EXCEPT !.gvs_county = v] : v \in GvsCountyAlt}
    \cup {[r EXCEPT !.county = v] : v \in CountyAlt}
    \cup {[r EXCEPT !.gvs_country = v] : v \in GvsCountryAlt}
    \cup {[r EXCEPT !.country = v] : v \in CountryAlt}
    \cup {[r EXCEPT !.gvs_state = v] : v \in GvsStateAlt}
    \cup {[r EXCEPT !.stateprovince = v] : v \in StateprovinceAlt}
    \cup {[r EXCEPT !.locality = v] : v \in LocalityAlt}

\* Records of a one-row batch: up to two columns away from BaseRecord.
RichRecords == {BaseRecord} \cup OneOff(BaseRecord)
               \cup UNION {OneOff(r) : r \in OneOff(BaseRecord)}

\* Records of a batch of several rows.
BatchRecords ==
    {BaseRecord,
     [BaseRecord EXCEPT !.county = Str(Yolo)],
     [BaseRecord EXCEPT !.latitude = NumText],
     [BaseRecord EXCEPT !.longitude = Num(-181)],
     [BaseRecord EXCEPT !.latitude = NumNaN],
     [BaseRecord EXCEPT !.latlong_err = Str(InOcean)],
     [BaseRecord EXCEPT !.latlong_err = Str(PossibleCentroid), !.locality = NaN]}

\* Record ids are the row numbers of the batch: unique, as the data model requires.
WithIds(rows) == [i \in 1..Len(rows) |-> [rows[i] EXCEPT !.id = i]]

Batches ==
    {WithIds(<<r>>) : r \in RichRecords}
    \cup UNION {{WithIds(b) : b \in [1..n -> BatchRecords]} : n \in 2..MaxRecords}

InputColumns == {"id", "latitude", "longitude", "latlong_err", "gvs_county",
                 "county", "gvs_country", "country", "gvs_state",
                 "stateprovince", "locality"}

\* ------------------------------------------------------------- gazetteer
GazetteerCsv == <<[place_name |-> "davis", latitude |-> 38, longitude |-> -121],
                  [place_name |-> "napa", latitude |-> 38, longitude |-> -122]>>

Runs == 1..MaxLoaders

IdleLoader == [pc |-> "idle", table_exists |-> FALSE, gazetteer_df |-> <<>>]

NoFile == [exists |-> FALSE, rows |-> <<>>]
File(rows) == [exists |-> TRUE, rows |-> rows]

OutputNames == {"all_output", "valid_output", "flagged_output"}

\* ------------------------------------------------------------- initial states
InitPipeline(batches) ==
    /\ pc = "start"
    /\ bels_csv \in batches
    /\ bels_reformatted = FALSE
    /\ final_csv = bels_csv
    /\ columns = InputColumns
    /\ signals = <<>>
    /\ to_check = <<>>
    /\ temp_input = NoFile
    /\ returncode = "none"
    /\ cleaned = <<>>
    /\ output_csv = [f \in OutputNames |-> NoFile]

\* The sqlite file is new, or holds the table a prior run created.
InitStore ==
    /\ sqlite \in {NoFile, File(GazetteerCsv)}
    /\ loader = [p \in Runs |-> IdleLoader]

Init == InitPipeline(Batches) /\ InitStore

\* ------------------------------------------------------------- bels_reformat.py
\* BelsCounty without the suffix.
BelsCounty_NoSuffix(c) == str_strip(astype_str(c))

\* bels_csv['county'] = bels_csv['county'].astype(str).str.strip() + " County"
BelsCounty(c) == StrAdd(str_strip(astype_str(c)), CountySuffix)

\* rename_drop_columns: the declared county gets the suffix " County".  The rows
\* of the model's batch are the rows the function returns.
RenameDropColumns ==
    /\ pc = "start"
    /\ ~bels_reformatted
    /\ \A p \in Runs : loader[p].pc = "idle"
    /\ bels_reformatted' = TRUE
    /\ final_csv' = [i \in 1..Len(final_csv) |->
                        [final_csv[i] EXCEPT !.county = BelsCounty(@)]]
    /\ UNCHANGED <<pc, bels_csv, columns, signals, to_check, temp_input,
                   returncode, cleaned, output_csv, sqlite, loader>>

\* ------------------------------------------------------------- create_new_sqlite_gazetteer
\* SELECT name FROM sqlite_master ...; table_exists = cursor.fetchone()
SelectSqliteMaster(p) ==
    /\ pc = "start"
    /\ loader[p].pc = "idle"
    /\ loader' = [loader EXCEPT ![p].pc = "checked",
                                ![p].table_exists = sqlite.exists]
    /\ UNCHANGED <<pipeline_vars, sqlite>>

\* to_sql(..., if_exists='fail'), first half: the table is created, or the call
\* raises ValueError when the table is there by now.
ToSqlCreate(p) ==
    /\ loader[p].pc = "checked"
    /\ ~loader[p].table_exists
    /\ IF sqlite.exists
       THEN /\ loader' = [loader EXCEPT ![p].pc = "failed"]
            /\ UNCHANGED sqlite
       ELSE /\ sqlite' = File(<<>>)
            /\ loader' = [loader EXCEPT ![p].pc = "creating"]
    /\ UNCHANGED pipeline_vars

\* to_sql, second half: the rows of the CSV are inserted and committed.
ToSqlInsert(p) ==
    /\ loader[p].pc = "creating"
    /\ sqlite' = File(sqlite.rows \o GazetteerCsv)
    /\ loader' = [loader EXCEPT ![p].pc = "created"]
    /\ UNCHANGED pipeline_vars

\* self.gazetteer_df = pd.read_sql_query("SELECT * FROM geo_gazetteer")
ReadSqlQuery(p) ==
    /\ \/ loader[p].pc = "created"
       \/ loader[p].pc = "checked" /\ loader[p].table_exists
    /\ loader' = [loader EXCEPT ![p] = [pc |-> "loaded", table_exists |-> FALSE,
                                        gazetteer_df |-> sqlite.rows]]
    /\ UNCHANGED <<pipeline_vars, sqlite>>

\* ------------------------------------------------------------- initial_filter_results
\* The boolean Series of lines 46-52 for one row whose gvs_county already
\* carries the suffix of line 44.
RowSignals(r) ==
    LET locality_blank == r.locality.na \/ SeriesEqStr(str_strip(r.locality), <<>>)
    IN  [missing_coords |-> isna(r.latitude) \/ isna(r.longitude),
         latlong_err_invalid |-> \/ SeriesEqStr(r.latlong_err, InOcean)
                                 \/ SeriesEqStr(r.latlong_err, OutOfBounds),
         county_mismatch |-> SeriesNe(str_lower(str_strip(r.gvs_county)),
                                      str_lower(str_strip(r.county))),
         country_mismatch |-> SeriesNe(str_lower(str_strip(r.gvs_country)),
                                       str_lower(str_strip(r.country))),
         stateprovince_mismatch |-> SeriesNe(str_lower(str_strip(r.gvs_state)),
                                             str_lower(str_strip(r.stateprovince))),
         centroid_missing_flag |-> /\ locality_blank
                                   /\ ~SeriesEqStr(r.latlong_err, PossibleCentroid)]

\* Lines 54-61: the flag is the OR of the six Series.
ComGeoref(s) ==
    \/ s.missing_coords
    \/ s.latlong_err_invalid
    \/ s.county_mismatch
    \/ s.country_mismatch
    \/ s.stateprovince_mismatch
    \/ s.centroid_missing_flag

\* Line 44: gvs_county + " County".
SuffixGvsCounty(r) == [r EXCEPT !.gvs_county = StrAdd(@, CountySuffix)]

InitialFilterResults ==
    /\ pc = "start"
    /\ loader[1].pc = "loaded"
    /\ LET suffixed == [i \in 1..Len(final_csv) |-> SuffixGvsCounty(final_csv[i])]
           sig == [i \in 1..Len(final_csv) |-> RowSignals(suffixed[i])]
       IN  /\ signals' = sig
           /\ final_csv' = [i \in 1..Len(final_csv) |->
                               [suffixed[i] EXCEPT !.com_georef = ComGeoref(sig[i])]]
    /\ columns' = columns \cup {"com_georef"}
    /\ pc' = "filtered"
    /\ UNCHANGED <<bels_csv, bels_reformatted, to_check, temp_input,
                   returncode, cleaned, output_csv, sqlite, loader>>

\* ------------------------------------------------------------- clean_coordinates_with_r
\* RowToCheck without the com_georef filter of line 65.
RowToCheck_BoundsOnly(r) ==
    /\ CoerceBetween(r.latitude, -90, 90)
    /\ CoerceBetween(r.longitude, -180, 180)

\* Lines 65-69: the rows to check are those not flagged whose latitude and
\* longitude coerce to numbers within bounds.
RowToCheck(r) ==
    /\ r.com_georef = FALSE
    /\ CoerceBetween(r.latitude, -90, 90)
    /\ CoerceBetween(r.longitude, -180, 180)

ToCheck(frame) == SelectSeq(frame, RowToCheck)

\* Lines 63-86: to_check is written to temp_input.csv and Rscript is started.
WriteInputRunRscript ==
    /\ pc = "filtered"
    /\ to_check' = ToCheck(final_csv)
    /\ temp_input' = File(ToCheck(final_csv))
    /\ pc' = "rscript"
    /\ UNCHANGED <<bels_csv, bels_reformatted, final_csv, columns, signals,
                   returncode, cleaned, output_csv, sqlite, loader>>

\* RscriptFailed with the error logged and not raised again: the run goes on
\* with an empty table of verdicts.
RscriptFailed_Swallowed ==
    /\ pc = "rscript"
    /\ returncode' = "nonzero"
    /\ pc' = "merged"
    /\ final_csv' = [i \in 1..Len(final_csv) |->
                        [final_csv[i] EXCEPT !.cc_valid = "FALSE", !.com_georef = TRUE]]
    /\ columns' = columns \cup {"cc_valid"}
    /\ UNCHANGED <<bels_csv, bels_reformatted, signals, to_check, temp_input,
                   cleaned, output_csv, sqlite, loader>>

\* Lines 87-89: Rscript exits non-zero; the error is logged and raised again,
\* which ends __init__.
RscriptFailed ==
    /\ pc = "rscript"
    /\ returncode' = "nonzero"
    /\ pc' = "failed"
    /\ UNCHANGED <<bels_csv, bels_reformatted, final_csv, columns, signals,
                   to_check, temp_input, cleaned, output_csv, sqlite, loader>>

\* The verdict values of column cc_valid: NA is a missing value.
Verdicts == {"TRUE", "FALSE", "NA"}

VerdictRank(v) == CASE v = "TRUE" -> 0 [] v = "FALSE" -> 1 [] OTHER -> 2

\* The tables Rscript may write to temp_output.csv: up to MaxCleaned rows
\* (id, cc_valid) over the ids of the batch, the same id possibly more than
\* once, listed in the order of the ids.
Responses ==
    LET rows == [id : 1..Len(bels_csv), cc_valid : Verdicts]
        ordered(s) == \A i \in 1..(Len(s) - 1) :
                          \/ s[i].id < s[i + 1].id
                          \/ /\ s[i].id = s[i + 1].id
                             /\ VerdictRank(s[i].cc_valid) <= VerdictRank(s[i + 1].cc_valid)
    IN  {s \in UNION {[1..n -> rows] : n \in 0..MaxCleaned} : ordered(s)}

\* MergeRow of an inner merge: a row without a match is dropped.
MergeRow_Inner(l, right) ==
    LET m == SelectSeq(right, LAMBDA r : r.id = l.id)
    IN  [j \in 1..Len(m) |-> [l EXCEPT !.cc_valid = m[j].cc_valid]]

\* One row of a left merge on 'id' with right[['id', 'cc_valid']]: one output
\* row per matching row of right, and one row with a missing cc_valid if
\* there is none.
MergeRow(l, right) ==
    LET m == SelectSeq(right, LAMBDA r : r.id = l.id)
    IN  IF m = <<>> THEN <<[l EXCEPT !.cc_valid = "NA"]>>
        ELSE [j \in 1..Len(m) |-> [l EXCEPT !.cc_valid = m[j].cc_valid]]

RECURSIVE MergeLeft(_, _)
\* left.merge(right[['id', 'cc_valid']], on='id', how='left')
MergeLeft(left, right) ==
    IF left = <<>> THEN <<>>
    ELSE MergeRow(Head(left), right) \o MergeLeft(Tail(left), right)

\* fillna(True) in place of fillna(False).
FillnaFalse_FillTrue(v) == IF v = "NA" THEN "TRUE" ELSE v

\* Line 102: cc_valid.fillna(False).
FillnaFalse(v) == IF v = "NA" THEN "FALSE" ELSE v

\* Line 103 left out.
FlagInvalid_Skip(r) == r

\* Line 103: rows whose cc_valid is False get com_georef = True.
FlagInvalid(r) == IF r.cc_valid = "FALSE" THEN [r EXCEPT !.com_georef = TRUE] ELSE r

\* MergeVerdicts with the response merged into the whole frame, not by way of
\* to_check.
MergeVerdicts_Direct(frame, checked, resp) ==
    LET merged == MergeLeft(frame, resp)
    IN  [i \in 1..Len(merged) |->
            FlagInvalid([merged[i] EXCEPT !.cc_valid = FillnaFalse(@)])]

\* Lines 98-103 for the table `resp` read from temp_output.csv.
MergeVerdicts(frame, checked, resp) ==
    LET merged == MergeLeft(frame, MergeLeft(checked, resp))
    IN  [i \in 1..Len(merged) |->
            FlagInvalid([merged[i] EXCEPT !.cc_valid = FillnaFalse(@)])]

\* Lines 92-107: Rscript exited with 0; its table is merged in and the
\* temporary files are removed.
RscriptReturned ==
    /\ pc = "rscript"
    /\ \E resp \in Responses :
          /\ cleaned' = resp
          /\ to_check' = MergeLeft(to_check, resp)
          /\ final_csv' = MergeVerdicts(final_csv, to_check, resp)
    /\ columns' = columns \cup {"cc_valid"}
    /\ returncode' = "zero"
    /\ temp_input' = NoFile
    /\ pc' = "merged"
    /\ UNCHANGED <<bels_csv, bels_reformatted, signals, output_csv, sqlite, loader>>

\* ------------------------------------------------------------- placeholder_function
\* final_csv[final_csv['cc_valid']]
ValidRows(frame) == SelectSeq(frame, LAMBDA r : r.cc_valid = "TRUE")

\* final_csv[~final_csv['cc_valid']]
FlaggedRows(frame) == SelectSeq(frame, LAMBDA r : r.cc_valid # "TRUE")

PlaceholderFunction ==
    /\ pc = "merged"
    /\ output_csv' = [f \in OutputNames |->
                         CASE f = "all_output" -> File(final_csv)
                           [] f = "valid_output" -> File(ValidRows(final_csv))
                           [] f = "flagged_output" -> File(FlaggedRows(final_csv))]
    /\ pc' = "done"
    /\ UNCHANGED <<bels_csv, bels_reformatted, final_csv, columns, signals,
                   to_check, temp_input, returncode, cleaned, sqlite, loader>>

\* ------------------------------------------------------------- specifications
\* One run of CleanCoords: run 1 loads the gazetteer, then the batch is
\* filtered, validated and written.
Next ==
    \/ RenameDropColumns
    \/ SelectSqliteMaster(1)
    \/ ToSqlCreate(1)
    \/ ToSqlInsert(1)
    \/ ReadSqlQuery(1)
    \/ InitialFilterResults
    \/ WriteInputRunRscript
    \/ RscriptFailed
    \/ RscriptReturned
    \/ PlaceholderFunction

Spec == Init /\ [][Next]_vars

\* Several runs load the gazetteer against the same sqlite file, their
\* statements interleaved in any order.
InitLoad == InitPipeline({WithIds(<<BaseRecord>>)}) /\ InitStore

NextLoad ==
    \E p \in Runs :
        \/ SelectSqliteMaster(p)
        \/ ToSqlCreate(p)
        \/ ToSqlInsert(p)
        \/ ReadSqlQuery(p)

SpecLoad == InitLoad /\ [][NextLoad]_vars

\* ------------------------------------------------------------- properties
\* The ids of the rows of a frame.
Ids(frame) == {frame[k].id : k \in DOMAIN frame}

\* The ids of the records handed to the validator.
Submitted == Ids(to_check)

\* The needs_review flag as the consistency evaluation computed it for record i.
EvaluatedFlag(i) == ComGeoref(signals[i])

\* Record i's latitude and longitude are numbers within [-90,90] and [-180,180].
InBounds(i) ==
    LET r == bels_csv[i]
    IN  /\ r.latitude.k = "num" /\ -90 <= r.latitude.n /\ r.latitude.n <= 90
        /\ r.longitude.k = "num" /\ -180 <= r.longitude.n /\ r.longitude.n <= 180

\* The batch has been through initial_filter_results.
Evaluated == pc \in {"filtered", "rscript", "merged", "done", "failed"}

\* C1: a record whose needs_review flag is true after the consistency
\* evaluation is never part of the table submitted to the validator: every
\* row written to temp_input.csv, and every row of to_check, has
\* com_georef = False and belongs to a record the evaluation did not flag.
C1_ReviewNeverSubmitted ==
    /\ \A k \in DOMAIN temp_input.rows :
          /\ temp_input.rows[k].com_georef = FALSE
          /\ ~EvaluatedFlag(temp_input.rows[k].id)
    /\ \A k \in DOMAIN to_check :
          /\ to_check[k].com_georef = FALSE
          /\ ~EvaluatedFlag(to_check[k].id)

\* Rscript runs on a table while the batch holds a flagged record whose
\* coordinates are within bounds.
C1_Witness ==
    /\ pc = "rscript"
    /\ temp_input.rows # <<>>
    /\ \E i \in DOMAIN final_csv :
          /\ final_csv[i].com_georef
          /\ InBounds(final_csv[i].id)
          /\ final_csv[i].id \notin Ids(temp_input.rows)

\* C2: a record that was submitted and whose id is absent from the validator's
\* response ends with coordinate_valid false, is written to the flagged
\* partition and is not written to the valid partition.
C2_MissingVerdictFlagged ==
    pc = "done" =>
        \A i \in Submitted \ Ids(cleaned) :
            /\ \A k \in DOMAIN final_csv :
                  final_csv[k].id = i => final_csv[k].cc_valid = "FALSE"
            /\ i \in Ids(output_csv["flagged_output"].rows)
            /\ i \notin Ids(output_csv["valid_output"].rows)

\* Two records were submitted, the response names only submitted ids, and it
\* leaves one of them out.
C2_Witness ==
    /\ pc = "done"
    /\ Ids(cleaned) \subseteq Submitted
    /\ Ids(cleaned) # {}
    /\ Submitted \ Ids(cleaned) # {}

\* The six signals of the design for the record with id i, from the batch as the
\* evaluation receives it; a text is missing when it is NaN.
Norm(s) == PyLower(PyStrip(s))

TextMismatch(upstream, declared) ==
    \/ upstream.na
    \/ declared.na
    \/ Norm(upstream.s) # Norm(declared.s)

missing_coordinate(r) == r.latitude.k = "nan" \/ r.longitude.k = "nan"

invalid_upstream_flag(r) ==
    ~r.latlong_err.na /\ r.latlong_err.s \in {InOcean, OutOfBounds}

county_mismatch(i, r) ==
    LET upstream == bels_csv[i].gvs_county
    IN  \/ upstream.na
        \/ r.county.na
        \/ Norm(upstream.s \o CountySuffix) # Norm(r.county.s)

country_mismatch(r) == TextMismatch(r.gvs_country, r.country)

state_mismatch(r) == TextMismatch(r.gvs_state, r.stateprovince)

unverifiable_centroid(r) ==
    /\ r.locality.na \/ PyStrip(r.locality.s) = <<>>
    /\ r.latlong_err.na \/ r.latlong_err.s # PossibleCentroid

\* C3: after the consistency evaluation needs_review is true exactly when one
\* of the six signals is true for the record, a missing text on either side of
\* a comparison counting as a mismatch; each Series of the evaluation is the
\* signal of the design.
C3_FlagIsOrOfSignals ==
    pc = "filtered" =>
        \A i \in DOMAIN final_csv :
            LET r == final_csv[i] IN
            /\ r.com_georef = (\/ missing_coordinate(r)
                               \/ invalid_upstream_flag(r)
                               \/ county_mismatch(i, r)
                               \/ country_mismatch(r)
                               \/ state_mismatch(r)
                               \/ unverifiable_centroid(r))
            /\ signals[i].missing_coords = missing_coordinate(r)
            /\ signals[i].latlong_err_invalid = invalid_upstream_flag(r)
            /\ signals[i].county_mismatch = county_mismatch(i, r)
            /\ signals[i].country_mismatch = country_mismatch(r)
            /\ signals[i].stateprovince_mismatch = state_mismatch(r)
            /\ signals[i].centroid_missing_flag = unverifiable_centroid(r)

\* A record flagged only because the county is missing on both sides.
C3_Witness ==
    /\ pc = "filtered"
    /\ \E i \in DOMAIN final_csv :
          /\ bels_csv[i].gvs_county.na
          /\ final_csv[i].county.na
          /\ final_csv[i].com_georef
          /\ signals[i] = [missing_coords |-> FALSE,
                           latlong_err_invalid |-> FALSE,
                           county_mismatch |-> TRUE,
                           country_mismatch |-> FALSE,
                           stateprovince_mismatch |-> FALSE,
                           centroid_missing_flag |-> FALSE]

\* The declared county of record i is X and its upstream-resolved county is
\* "X County".
DeclaredXUpstreamXCounty(i) ==
    /\ ~bels_csv[i].county.na
    /\ ~bels_csv[i].gvs_county.na
    /\ bels_csv[i].gvs_county.s = bels_csv[i].county.s \o CountySuffix

\* No signal other than county_mismatch fires for record i.
NoOtherSignal(i) ==
    /\ ~signals[i].missing_coords
    /\ ~signals[i].latlong_err_invalid
    /\ ~signals[i].country_mismatch
    /\ ~signals[i].stateprovince_mismatch
    /\ ~signals[i].centroid_missing_flag

\* C4 as claimed: a record with declared county X and upstream-resolved county
\* "X County" has county_mismatch false and, no other signal firing,
\* needs_review false.
C4_UpstreamWithSuffixMatches ==
    pc = "filtered" =>
        \A i \in DOMAIN final_csv :
            DeclaredXUpstreamXCounty(i) =>
                /\ ~signals[i].county_mismatch
                /\ NoOtherSignal(i) => ~final_csv[i].com_georef

\* The declared county of record i is X and its upstream-resolved county is
\* the same X, which does not end in a blank.
DeclaredXUpstreamX(i) ==
    /\ ~bels_csv[i].county.na
    /\ ~bels_csv[i].gvs_county.na
    /\ bels_csv[i].gvs_county.s = bels_csv[i].county.s
    /\ \/ bels_csv[i].county.s = <<>>
       \/ bels_csv[i].county.s[Len(bels_csv[i].county.s)] # " "

\* C4 as amended: when rename_drop_columns has suffixed the declared county, a
\* record with declared county X and upstream-resolved county X (no " County"
\* suffix, no trailing blank) has county_mismatch false and, no other signal
\* firing, needs_review false, and is handed to the validator if its
\* coordinates are within bounds.
C4_SameCountyMatches ==
    (Evaluated /\ bels_reformatted) =>
        \A i \in DOMAIN signals :
            DeclaredXUpstreamX(i) =>
                /\ ~signals[i].county_mismatch
                /\ NoOtherSignal(i) => ~EvaluatedFlag(i)
                /\ (NoOtherSignal(i) /\ pc # "filtered" /\ InBounds(i)) =>
                      i \in Submitted

\* Declared "Yolo", upstream "Yolo": after reformatting the record is handed
\* to the validator.
C4_Witness ==
    /\ pc = "rscript"
    /\ bels_reformatted
    /\ \E i \in DOMAIN signals :
          /\ bels_csv[i].county = Str(Yolo)
          /\ DeclaredXUpstreamX(i)
          /\ i \in Ids(temp_input.rows)

\* C5: if the Rscript call fails the run ends in an error: no step of the run
\* is left to take, the verdicts are not merged, no record has a
\* coordinate_valid value and none of the three output files is written.
C5_ValidatorFailureIsFatal ==
    returncode = "nonzero" =>
        /\ pc = "failed"
        /\ "cc_valid" \notin columns
        /\ \A k \in DOMAIN final_csv : final_csv[k].cc_valid = "NA"
        /\ \A f \in OutputNames : ~output_csv[f].exists
        /\ ~ENABLED RscriptReturned
        /\ ~ENABLED PlaceholderFunction

\* Rscript failed on a table that held a record.
C5_Witness ==
    /\ returncode = "nonzero"
    /\ to_check # <<>>

\* The run is past the branch between review and validation.
Branched == pc \in {"rscript", "merged", "done", "failed"}

\* C6 as claimed: every record of a batch that reaches partitioning was either
\* short-circuited for review (needs_review true, not submitted) or submitted
\* to the validator (needs_review false).
C6_ReviewOrSubmitted ==
    pc = "done" =>
        \A i \in DOMAIN bels_csv :
            \/ EvaluatedFlag(i) /\ i \notin Submitted
            \/ ~EvaluatedFlag(i) /\ i \in Submitted

\* C6 as amended: every record takes exactly one of three branches: short-
\* circuited for review (needs_review true, not submitted), submitted
\* (needs_review false, coordinates numeric and within bounds), or excluded
\* (needs_review false, latitude or longitude non-numeric or out of bounds,
\* not submitted); an excluded record ends with coordinate_valid false.
C6_ThreeBranches ==
    Branched =>
        \A i \in DOMAIN bels_csv :
            /\ i \in Submitted <=> (~EvaluatedFlag(i) /\ InBounds(i))
            /\ (pc = "done" /\ ~EvaluatedFlag(i) /\ ~InBounds(i)) =>
                  /\ i \in Ids(output_csv["flagged_output"].rows)
                  /\ i \notin Ids(output_csv["valid_output"].rows)

\* A batch reached partitioning with a record that was submitted and a record
\* that was neither flagged nor submitted.
C6_Witness ==
    /\ pc = "done"
    /\ \E i \in DOMAIN bels_csv : i \in Submitted
    /\ \E i \in DOMAIN bels_csv : ~EvaluatedFlag(i) /\ i \notin Submitted

\* The verdicts are merged in.
Merged == pc \in {"merged", "done"}

Rows(frame) == {frame[k] : k \in DOMAIN frame}

FallbackColumns == {"matched_place_name", "matched_latitude", "matched_longitude"}

\* C9: by the time a record leaves the consistency evaluation the gazetteer
\* fallback lookup has been run on its locality, whatever its needs_review
\* flag: every record past the evaluation carries the fallback fields.
C9_FallbackAttempted ==
    Evaluated => FallbackColumns \subseteq columns

\* C10: under any interleaving of gazetteer loads against one sqlite file the
\* table is materialized once and not modified afterwards, and every load
\* completes reading that table: no load fails, and none reads anything but
\* the rows of the gazetteer CSV.
C10_EveryLoadSucceeds ==
    /\ sqlite.exists => sqlite.rows \in {<<>>, GazetteerCsv}
    /\ \A p \in Runs :
          /\ loader[p].pc # "failed"
          /\ loader[p].pc = "loaded" => loader[p].gazetteer_df = GazetteerCsv

\* C11: whatever the validator returns, also verdicts for ids that were never
\* submitted, a record is written to the valid partition only if its
\* needs_review flag was false after the consistency evaluation, its latitude
\* and longitude are numbers within [-90,90] and [-180,180], and the validator
\* returned valid = true for its id.
C11_ValidOnlyIfAllThree ==
    \A k \in DOMAIN output_csv["valid_output"].rows :
        LET i == output_csv["valid_output"].rows[k].id
        IN  /\ ~EvaluatedFlag(i)
            /\ InBounds(i)
            /\ \E j \in DOMAIN cleaned :
                  cleaned[j].id = i /\ cleaned[j].cc_valid = "TRUE"

\* The validator returned valid = true for a submitted record and for a record
\* that was never submitted; the first is written to valid, the second is not.
C11_Witness ==
    /\ pc = "done"
    /\ output_csv["valid_output"].rows # <<>>
    /\ \E j \in DOMAIN cleaned :
          /\ cleaned[j].cc_valid = "TRUE"
          /\ cleaned[j].id \notin Submitted
          /\ cleaned[j].id \in Ids(output_csv["flagged_output"].rows)

\* The number of rows of a frame that carry id i.
RowsWithId(frame, i) == Cardinality({k \in DOMAIN frame : frame[k].id = i})

\* C12: for a batch with unique ids and any validator response, also one that
\* lists an id more than once or lists ids that were not submitted, the
\* verdict merge preserves the batch: afterwards every input record appears
\* exactly once, and the all partition has as many rows as the input batch.
C12_MergePreservesBatch ==
    /\ Merged =>
          /\ Len(final_csv) = Len(bels_csv)
          /\ \A i \in DOMAIN bels_csv : RowsWithId(final_csv, i) = 1
    /\ output_csv["all_output"].exists =>
          Len(output_csv["all_output"].rows) = Len(bels_csv)

====
